---- MODULE Spec2Model ----
(***************************************************************************)
(* Session store and quiz engine of server2.py; shared index, per-user     *)
(* conversation state and request handlers of server3.py.  The two files   *)
(* are two servers: each specification below runs one of them and leaves   *)
(* the state of the other as it is after startup.                          *)
(*                                                                         *)
(* Every request handler is an `async def` without an await between its    *)
(* session lookup and its return, so one handler run is one atomic step.   *)
(* Init is the state once the startup event has returned (the shared       *)
(* vectorstore is built, the session map is empty).                        *)
(*                                                                         *)
(* Identifiers.  uuid4() yields a value never seen before; the n-th        *)
(* session / quiz / question identifier issued is the integer n >= 1.      *)
(* An identifier a client sends may also be 0 (a well-formed UUID that     *)
(* was never issued) or negative (for the X-Session-ID header: header      *)
(* absent; for a path parameter: a string that is not a UUID).             *)
(*                                                                         *)
(* Text.  A string is a sequence of one-character strings.                 *)
(*                                                                         *)
(* server3.py.  Its handlers are `async def` too and call the chains and   *)
(* requests.post synchronously, so from `await request.json()` to its      *)
(* return a handler keeps the event-loop thread; an ask is modelled call   *)
(* by call (semantic rewriting, generation, generation in the except       *)
(* branch), every other handler as one step.  The calls into langchain,    *)
(* thefuzz and OpenAI either return or raise.  The file uses LLMChain,     *)
(* StrOutputParser, process and fuzz without importing them: as it stands  *)
(* binding a chain and fuzzy matching can only raise (NameError); the      *)
(* model also lets them return, as they do once the names are supplied.    *)
(* log_event, an append to a local file, is taken not to raise.            *)
(*                                                                         *)
(* Fuzzy matching.  process and fuzz are those of thefuzz, the package     *)
(* the file's last line installs: extractBests runs its default processor  *)
(* on the query and on every choice, scores them with the Indel ratio      *)
(* 2 * LCS / (len + len), keeps the scores that reach score_cutoff, sorts  *)
(* them highest first and returns at most `limit` (5) of them.             *)
(***************************************************************************)
EXTENDS Integers, Sequences, FiniteSets, TLC

VARIABLES
    now,             \* datetime.now(), in minutes
    sessions,        \* session_manager.sessions: session id -> session dict
    nextSessionId,   \* the next session id uuid4() yields
    nextQuizId,      \* the next quiz id uuid4() yields
    nextQuestionId,  \* the next question id uuid4() yields
    last             \* the step that led here: request, external result, response

vars == <<now, sessions, nextSessionId, nextQuizId, nextQuestionId, last>>

\* server3.py
VARIABLES
    global_vectorstore,  \* the shared index, None until built
    vectorstore_lock,    \* the thread inside `with vectorstore_lock`, or "None"
    pdf_cache,           \* lru_cache of get_pdf_text: path -> extracted text
    callers,             \* threads calling initialize_global_vectorstore
    init_calls,          \* calls of initialize_global_vectorstore made so far
    user_sessions,       \* user_sessions: user id -> user state
    pending,             \* requests whose handler waits at `await request.json()`
    inflight,            \* handlers past that await that have not returned
    submitted,           \* requests received so far
    last3                \* the step that led here: request, external result, response

vars3 == <<global_vectorstore, vectorstore_lock, pdf_cache, callers, init_calls,
           user_sessions, pending, inflight, submitted, last3>>

(* ---------------------------- bounds ---------------------------------- *)
MaxSessions == 2
MaxQuizzes == 1
MaxTime == 60
MaxCursor == 3
MaxInitCalls == 3
MaxRequests == 3

Threads == {"t1", "t2"}

ClockSteps == {30, 31}
UserAnswers == {"x", "y"}

\* answer texts the generation call may return
BlankResponses == { <<" ", "\n", " ">> }

OneLineResponses == { <<" ", "a", " ">> }

TwoLineResponses == { <<"b", " ", "\n", "\n", " ", "a">> }

SixLineResponses ==
    { <<"b", " ", "\n", "\n", " ", "a", "\n", "a", "b", "\n", "b", "a", "\n",
        "a", "a", "\n", "b", "b">> }

ShortResponses == BlankResponses \cup OneLineResponses \cup TwoLineResponses

Responses == ShortResponses \cup SixLineResponses

(* ------------------------ program constants --------------------------- *)
session_timeout_minutes == 30
num_questions_default == 5

(* ----------------------------- helpers -------------------------------- *)
EmptyMap == [x \in {} |-> x]

Put(f, k, v) == [x \in (DOMAIN f) \cup {k} |-> IF x = k THEN v ELSE f[x]]

Del(f, k) == [x \in (DOMAIN f) \ {k} |-> f[x]]

Whitespace == {" ", "\n"}

\* str.split(sep): the pieces between separators, at least one piece
RECURSIVE Split(_, _)
Split(s, sep) ==
    IF \E i \in 1..Len(s) : s[i] = sep
    THEN LET i == CHOOSE i \in 1..Len(s) :
                      s[i] = sep /\ \A j \in 1..(i - 1) : s[j] # sep
         IN <<SubSeq(s, 1, i - 1)>> \o Split(SubSeq(s, i + 1, Len(s)), sep)
    ELSE <<s>>

RECURSIVE LStrip(_)
LStrip(s) ==
    IF s # <<>> /\ Head(s) \in Whitespace THEN LStrip(Tail(s)) ELSE s

RECURSIVE RStrip(_)
RStrip(s) ==
    IF s # <<>> /\ s[Len(s)] \in Whitespace
    THEN RStrip(SubSeq(s, 1, Len(s) - 1))
    ELSE s

\* str.strip()
Strip(s) == RStrip(LStrip(s))

(* ------------------------- SessionManager ----------------------------- *)
session_timeout == session_timeout_minutes

\* variant: every session is created on the same quiz dictionary
create_session_shared_quizzes(S, sid) ==
    LET held == UNION {DOMAIN S[s].active_quizzes : s \in DOMAIN S}
        holder(q) == CHOOSE s \in DOMAIN S : q \in DOMAIN S[s].active_quizzes
    IN Put(S, sid, [created_at |-> now,
                    last_accessed |-> now,
                    chain |-> "None",
                    memory |-> <<>>,
                    active_quizzes |->
                        [q \in held |-> S[holder(q)].active_quizzes[q]]])

create_session(S, sid) ==
    Put(S, sid, [created_at |-> now,
                 last_accessed |-> now,
                 chain |-> "None",
                 memory |-> <<>>,
                 active_quizzes |-> EmptyMap])

\* variant: the age of the session counted from its creation
Expired_since_creation(session) == now - session.created_at > session_timeout

Expired(session) == now - session.last_accessed > session_timeout

\* variant: a stale session is handed out and touched like a live one
SessionManager_get_session_no_expiry(S, sid) ==
    IF sid \in DOMAIN S
    THEN [sessions |-> [S EXCEPT ![sid].last_accessed = now], found |-> TRUE]
    ELSE [sessions |-> S, found |-> FALSE]

\* SessionManager.get_session: found = FALSE is the None result
SessionManager_get_session(S, sid) ==
    IF sid \in DOMAIN S
    THEN IF Expired(S[sid])
         THEN [sessions |-> Del(S, sid), found |-> FALSE]
         ELSE [sessions |-> [S EXCEPT ![sid].last_accessed = now], found |-> TRUE]
    ELSE [sessions |-> S, found |-> FALSE]

\* SessionManager.cleanup_expired_sessions (no caller in the program)
cleanup_expired_sessions(S) ==
    [sid \in {x \in DOMAIN S : ~Expired(S[x])} |-> S[sid]]

\* the get_session dependency of every handler; h is the X-Session-ID header
get_session(h) ==
    LET absent == h < 0
        S1 == IF absent THEN create_session(sessions, nextSessionId) ELSE sessions
        id1 == IF absent THEN nextSessionId ELSE h
        n1 == IF absent THEN nextSessionId + 1 ELSE nextSessionId
        r1 == SessionManager_get_session(S1, id1)
    IN IF r1.found
       THEN [sessions |-> r1.sessions, session_id |-> id1, next |-> n1]
       ELSE LET r2 == SessionManager_get_session(create_session(r1.sessions, n1), n1)
            IN [sessions |-> r2.sessions, session_id |-> n1, next |-> n1 + 1]

HeaderInputs == (-1)..(nextSessionId - 1)

(* --------------------------- quiz engine ------------------------------ *)
create_chain(session_data) == [session_data EXCEPT !.chain = "bound"]

\* the stripped non-empty lines of the answer text
question_lines(answer_text) ==
    LET lines == Split(answer_text, "\n")
    IN SelectSeq([i \in 1..Len(lines) |-> Strip(lines[i])], LAMBDA l : l # <<>>)

Slice(s, n) == SubSeq(s, 1, IF n < Len(s) THEN n ELSE Len(s))

\* variant: the final slice to num_questions is missing
generate_questions_untruncated(answer_text, num_questions, firstId) ==
    LET lines == question_lines(answer_text)
    IN [i \in 1..Len(lines) |-> [id |-> firstId + i - 1, question |-> lines[i]]]

generate_questions(answer_text, num_questions, firstId) ==
    LET lines == question_lines(answer_text)
        questions == [i \in 1..Len(lines) |->
                         [id |-> firstId + i - 1, question |-> lines[i]]]
    IN Slice(questions, num_questions)

new_quiz(questions) ==
    [questions |-> questions, answers |-> EmptyMap, current_question |-> 0]

QuestionIds(quiz) == {quiz.questions[i].id : i \in 1..Len(quiz.questions)}

\* variant: the membership test is missing
question_in_quiz_unchecked(quiz, question_id) == TRUE

\* any(q.id == question_id for q in quiz["questions"])
question_in_quiz(quiz, question_id) == question_id \in QuestionIds(quiz)

\* variant: strict comparison
quiz_complete_strict(quiz) == quiz.current_question > Len(quiz.questions)

quiz_complete(quiz) == quiz.current_question >= Len(quiz.questions)

\* variant: the cursor advances only for a question without an answer
record_answer_once(quiz, question_id, user_answer) ==
    [quiz EXCEPT !.answers = Put(@, question_id, user_answer),
                 !.current_question =
                     IF question_id \in DOMAIN quiz.answers THEN @ ELSE @ + 1]

record_answer(quiz, question_id, user_answer) ==
    [quiz EXCEPT !.answers = Put(@, question_id, user_answer),
                 !.current_question = @ + 1]

\* variant: questions without an answer are left out of the report
evaluated_answers_answered_only(quiz) ==
    LET answered == SelectSeq(quiz.questions,
                              LAMBDA q : q.id \in DOMAIN quiz.answers)
    IN [i \in 1..Len(answered) |->
           [question |-> answered[i].question,
            user_answer |-> quiz.answers[answered[i].id]]]

evaluated_answers(quiz) ==
    [i \in 1..Len(quiz.questions) |->
        [question |-> quiz.questions[i].question,
         user_answer |-> IF quiz.questions[i].id \in DOMAIN quiz.answers
                         THEN quiz.answers[quiz.questions[i].id]
                         ELSE "No answer provided"]]

(* ------------------------------ steps --------------------------------- *)
Init ==
    /\ now = 0
    /\ sessions = EmptyMap
    /\ nextSessionId = 1
    /\ nextQuizId = 1
    /\ nextQuestionId = 1
    /\ last = [op |-> "startup"]

\* Python's None where the other values are records
None == [none |-> TRUE]

\* an exception leaving the call
raised == [raised |-> TRUE]

\* server3.py at import: no index, lock free, cache and session map empty
Init3 ==
    /\ global_vectorstore = None
    /\ vectorstore_lock = "None"
    /\ pdf_cache = EmptyMap
    /\ callers = [t \in Threads |-> [pc |-> "idle", result |-> None]]
    /\ init_calls = 0
    /\ user_sessions = EmptyMap
    /\ pending = {}
    /\ inflight = EmptyMap
    /\ submitted = 0
    /\ last3 = [op |-> "startup"]

(* Both servers start from their module-level state; a run then follows   *)
(* the steps of one of them.                                              *)
Start == Init /\ Init3

Tick(d) ==
    /\ now + d <= MaxTime
    /\ now' = now + d
    /\ last' = [op |-> "tick"]
    /\ UNCHANGED <<sessions, nextSessionId, nextQuizId, nextQuestionId>>

\* GET /debug/session
debug_session(h) ==
    LET dep == get_session(h)
        sd == dep.sessions[dep.session_id]
    IN /\ dep.next <= MaxSessions + 1
       /\ sessions' = dep.sessions
       /\ nextSessionId' = dep.next
       /\ last' = [op |-> "debug_session", header |-> h, status |-> 200,
                   session_id |-> dep.session_id,
                   active_quizzes |-> DOMAIN sd.active_quizzes]
       /\ UNCHANGED <<now, nextQuizId, nextQuestionId>>

\* POST /quiz/start, the generation call returning answer_text
start_quiz(h, answer_text) ==
    LET dep == get_session(h)
        sid == dep.session_id
        sd == dep.sessions[sid]
        sd1 == IF sd.chain = "None" THEN create_chain(sd) ELSE sd
        quiz_id == nextQuizId
        questions == generate_questions(answer_text, num_questions_default,
                                        nextQuestionId)
        sd2 == [sd1 EXCEPT !.memory = Append(@, answer_text),
                           !.active_quizzes = Put(@, quiz_id, new_quiz(questions))]
    IN /\ dep.next <= MaxSessions + 1
       /\ nextQuizId <= MaxQuizzes
       /\ sessions' = [dep.sessions EXCEPT ![sid] = sd2]
       /\ nextSessionId' = dep.next
       /\ nextQuizId' = nextQuizId + 1
       /\ nextQuestionId' = nextQuestionId + Len(question_lines(answer_text))
       /\ last' = [op |-> "start_quiz", header |-> h, status |-> 200,
                   session_id |-> sid, quiz_id |-> quiz_id,
                   questions |-> questions, answer_text |-> answer_text]
       /\ UNCHANGED now

\* POST /quiz/start, the generation call raising
start_quiz_raises(h) ==
    LET dep == get_session(h)
        sid == dep.session_id
        sd == dep.sessions[sid]
        sd1 == IF sd.chain = "None" THEN create_chain(sd) ELSE sd
    IN /\ dep.next <= MaxSessions + 1
       /\ sessions' = [dep.sessions EXCEPT ![sid] = sd1]
       /\ nextSessionId' = dep.next
       /\ last' = [op |-> "start_quiz", header |-> h, status |-> 500,
                   session_id |-> sid]
       /\ UNCHANGED <<now, nextQuizId, nextQuestionId>>

\* POST /quiz/{quiz_id}/answer/{question_id}
submit_answer(h, quiz_id, question_id, user_answer) ==
    LET dep == get_session(h)
        sid == dep.session_id
        sd == dep.sessions[sid]
        req == [op |-> "submit_answer", header |-> h, session_id |-> sid,
                quiz_id |-> quiz_id, question_id |-> question_id]
    IN /\ dep.next <= MaxSessions + 1
       /\ nextSessionId' = dep.next
       /\ UNCHANGED <<now, nextQuizId, nextQuestionId>>
       /\ IF quiz_id < 0 \/ question_id < 0
          THEN /\ sessions' = dep.sessions
               /\ last' = req @@ [status |-> 400, detail |->
                                      "Invalid quiz or question ID format"]
          ELSE IF quiz_id \notin DOMAIN sd.active_quizzes
          THEN /\ sessions' = dep.sessions
               /\ last' = req @@ [status |-> 404, detail |-> "Quiz not found"]
          ELSE IF ~question_in_quiz(sd.active_quizzes[quiz_id], question_id)
          THEN /\ sessions' = dep.sessions
               /\ last' = req @@ [status |-> 404,
                                  detail |-> "Question not found in quiz"]
          ELSE LET quiz == record_answer(sd.active_quizzes[quiz_id],
                                         question_id, user_answer)
               IN /\ quiz.current_question <= MaxCursor
                  /\ sessions' = [dep.sessions EXCEPT
                                     ![sid].active_quizzes[quiz_id] = quiz]
                  /\ last' = req @@ [status |-> 200,
                                     quiz_complete |-> quiz_complete(quiz),
                                     stored_answer |-> user_answer]

\* GET /quiz/{quiz_id}/result
get_quiz_result(h, quiz_id) ==
    LET dep == get_session(h)
        sid == dep.session_id
        sd == dep.sessions[sid]
        req == [op |-> "get_quiz_result", header |-> h, session_id |-> sid,
                quiz_id |-> quiz_id]
    IN /\ dep.next <= MaxSessions + 1
       /\ nextSessionId' = dep.next
       /\ UNCHANGED <<now, nextQuizId, nextQuestionId>>
       /\ IF quiz_id \notin DOMAIN sd.active_quizzes
          THEN /\ sessions' = dep.sessions
               /\ last' = req @@ [status |-> 404, detail |-> "Quiz not found"]
          ELSE LET sd1 == IF sd.chain = "None" THEN create_chain(sd) ELSE sd
                   quiz == sd1.active_quizzes[quiz_id]
               IN /\ sessions' = [dep.sessions EXCEPT ![sid] = sd1]
                  /\ last' = req @@ [status |-> 200,
                                     answers |-> evaluated_answers(quiz),
                                     total_questions |-> Len(quiz.questions),
                                     answered_questions |->
                                         Cardinality(DOMAIN quiz.answers)]

(* the identifiers a client sends *)
QuizIdInputs == 0..(nextQuizId - 1)

AllQuizzes ==
    UNION {{sessions[s].active_quizzes[q] : q \in DOMAIN sessions[s].active_quizzes} :
           s \in DOMAIN sessions}

QuestionIdInputs == {-1, 0} \cup UNION {QuestionIds(z) : z \in AllQuizzes}

\* the quiz engine used by one client on short quizzes while the clock stands
\* still: the first request carries no X-Session-ID, every later one carries
\* the session id the client was given
ClientHeader == IF sessions = EmptyMap THEN {-1} ELSE DOMAIN sessions

QuizNext ==
    \/ \E h \in ClientHeader, t \in ShortResponses :
          start_quiz(h, t) /\ UNCHANGED vars3
    \/ \E h \in ClientHeader, qz \in QuizIdInputs, qn \in QuestionIdInputs,
          a \in UserAnswers : submit_answer(h, qz, qn, a) /\ UNCHANGED vars3
    \/ \E h \in ClientHeader, qz \in QuizIdInputs :
          get_quiz_result(h, qz) /\ UNCHANGED vars3

QuizSpec == Start /\ [][QuizNext]_<<vars, vars3>>

\* the session store under a running clock, sessions filled by quiz starts
SessionNext ==
    \/ \E d \in ClockSteps : Tick(d) /\ UNCHANGED vars3
    \/ \E h \in HeaderInputs : debug_session(h) /\ UNCHANGED vars3
    \/ \E h \in HeaderInputs, t \in TwoLineResponses \cup SixLineResponses :
          start_quiz(h, t) /\ UNCHANGED vars3
    \/ \E h \in HeaderInputs : start_quiz_raises(h) /\ UNCHANGED vars3

SessionSpec == Start /\ [][SessionNext]_<<vars, vars3>>

Next ==
    \/ SessionNext
    \/ \E h \in HeaderInputs, t \in Responses : start_quiz(h, t) /\ UNCHANGED vars3
    \/ \E h \in HeaderInputs, qz \in QuizIdInputs, qn \in QuestionIdInputs,
          a \in UserAnswers : submit_answer(h, qz, qn, a) /\ UNCHANGED vars3
    \/ \E h \in HeaderInputs, qz \in QuizIdInputs :
          get_quiz_result(h, qz) /\ UNCHANGED vars3

Spec == Start /\ [][Next]_<<vars, vars3>>

(* ======================= server3.py: the shared index ================== *)
pdf_paths == <<"words.pdf", "ubik.pdf", "illesh3.pdf", "website.pdf">>

\* what PdfReader finds on disk; an unreadable file reads as ""
Unreadable == [i \in 1..Len(pdf_paths) |-> <<>>]

BlankPages == [i \in 1..Len(pdf_paths) |-> IF i = 2 THEN <<"\n">> ELSE <<>>]

Readable == [i \in 1..Len(pdf_paths) |-> IF i = 2 THEN <<"U", " ", "b">> ELSE <<>>]

Disks == {Unreadable, BlankPages, Readable}

\* get_pdf_text under lru_cache: the first result for a path is kept
get_pdf_text(cache, disk, i) ==
    IF pdf_paths[i] \in DOMAIN cache THEN cache[pdf_paths[i]] ELSE disk[i]

RECURSIVE combined_text(_, _, _)
combined_text(cache, disk, i) ==
    IF i > Len(pdf_paths) THEN <<>>
    ELSE get_pdf_text(cache, disk, i) \o <<" ">> \o combined_text(cache, disk, i + 1)

cache_after(cache, disk) ==
    [path \in {pdf_paths[i] : i \in 1..Len(pdf_paths)} |->
        get_pdf_text(cache, disk, CHOOSE i \in 1..Len(pdf_paths) : pdf_paths[i] = path)]

\* CharacterTextSplitter on a text shorter than CHUNK_SIZE: one stripped chunk
get_text_chunks(text) == <<Strip(text)>>

FAISS_from_texts(text_chunks) == [chunks |-> text_chunks]

already_initialized ==
    [success |-> TRUE, message |-> "[SYSTEM MESSAGE] Vectorstore is already initialized."]

no_text == [success |-> FALSE, message |-> "No text could be extracted from the PDFs."]

created == [success |-> TRUE, message |-> "[SYSTEM MESSAGE] Vectorstore was created successfully."]

\* variant: acquire does not wait for the holder
lock_free_always(lock) == TRUE

\* threading.Lock: acquire succeeds only while no thread holds the lock
lock_free(lock) == lock = "None"

\* a thread calls initialize_global_vectorstore and reaches `with vectorstore_lock`
init_call(t) ==
    /\ callers[t].pc = "idle"
    /\ init_calls < MaxInitCalls
    /\ init_calls' = init_calls + 1
    /\ callers' = [callers EXCEPT ![t] = [pc |-> "acquire", result |-> None]]
    /\ last3' = [op |-> "init_call", thread |-> t]
    /\ UNCHANGED <<global_vectorstore, vectorstore_lock, pdf_cache, user_sessions,
                   pending, inflight, submitted>>

\* variant: the `is not None` test is missing
init_enter_unchecked(t) ==
    /\ callers[t].pc = "acquire"
    /\ lock_free(vectorstore_lock)
    /\ callers' = [callers EXCEPT ![t].pc = "extract"]
    /\ vectorstore_lock' = t
    /\ last3' = [op |-> "init_enter", thread |-> t, seen |-> global_vectorstore]
    /\ UNCHANGED <<global_vectorstore, pdf_cache, init_calls, user_sessions,
                   pending, inflight, submitted>>

\* the lock is acquired and `global_vectorstore is not None` is tested
init_enter(t) ==
    /\ callers[t].pc = "acquire"
    /\ lock_free(vectorstore_lock)
    /\ IF global_vectorstore # None
       THEN /\ callers' = [callers EXCEPT ![t] =
                              [pc |-> "idle", result |-> already_initialized]]
            /\ UNCHANGED vectorstore_lock
       ELSE /\ callers' = [callers EXCEPT ![t].pc = "extract"]
            /\ vectorstore_lock' = t
    /\ last3' = [op |-> "init_enter", thread |-> t,
                 seen |-> global_vectorstore]
    /\ UNCHANGED <<global_vectorstore, pdf_cache, init_calls, user_sessions,
                   pending, inflight, submitted>>

\* variant: the test for extracted text is missing
init_extract_unchecked(t, disk) ==
    LET text == combined_text(pdf_cache, disk, 1)
    IN /\ callers[t].pc = "extract"
       /\ pdf_cache' = cache_after(pdf_cache, disk)
       /\ callers' = [callers EXCEPT ![t] =
                         [pc |-> "build", result |-> None, text |-> text]]
       /\ last3' = [op |-> "init_extract", thread |-> t, text |-> text]
       /\ UNCHANGED <<global_vectorstore, vectorstore_lock, init_calls,
                      user_sessions, pending, inflight, submitted>>

\* the PDFs are read and the combined text is tested for content
init_extract(t, disk) ==
    LET text == combined_text(pdf_cache, disk, 1)
    IN /\ callers[t].pc = "extract"
       /\ pdf_cache' = cache_after(pdf_cache, disk)
       /\ IF Strip(text) = <<>>
          THEN /\ callers' = [callers EXCEPT ![t] = [pc |-> "idle", result |-> no_text]]
               /\ vectorstore_lock' = "None"
          ELSE /\ callers' = [callers EXCEPT ![t] =
                                 [pc |-> "build", result |-> None, text |-> text]]
               /\ UNCHANGED vectorstore_lock
       /\ last3' = [op |-> "init_extract", thread |-> t, text |-> text]
       /\ UNCHANGED <<global_vectorstore, init_calls, user_sessions, pending,
                      inflight, submitted>>

\* FAISS.from_texts returns, the index is published and the lock released
init_build(t) ==
    /\ callers[t].pc = "build"
    /\ global_vectorstore' = FAISS_from_texts(get_text_chunks(callers[t].text))
    /\ vectorstore_lock' = "None"
    /\ callers' = [callers EXCEPT ![t] = [pc |-> "idle", result |-> created]]
    /\ last3' = [op |-> "init_build", thread |-> t]
    /\ UNCHANGED <<pdf_cache, init_calls, user_sessions, pending, inflight, submitted>>

\* the embedding call inside FAISS.from_texts raises; `with` releases the lock
init_build_raises(t) ==
    /\ callers[t].pc = "build"
    /\ vectorstore_lock' = "None"
    /\ callers' = [callers EXCEPT ![t] = [pc |-> "idle", result |-> raised]]
    /\ last3' = [op |-> "init_build_raises", thread |-> t]
    /\ UNCHANGED <<global_vectorstore, pdf_cache, init_calls, user_sessions,
                   pending, inflight, submitted>>

IndexNext ==
    \/ \E t \in Threads : init_call(t) /\ UNCHANGED vars
    \/ \E t \in Threads : init_enter(t) /\ UNCHANGED vars
    \/ \E t \in Threads, disk \in Disks : init_extract(t, disk) /\ UNCHANGED vars
    \/ \E t \in Threads : init_build(t) /\ UNCHANGED vars
    \/ \E t \in Threads : init_build_raises(t) /\ UNCHANGED vars

IndexSpec == Start /\ [][IndexNext]_<<vars, vars3>>

(* ======================= server3.py: conversations ===================== *)
DEFAULT_SYSTEM_MESSAGE == "default"

Users == {"u1", "u2"}
Questions == {"q"}
SystemMessages == {"m1"}

\* a key that get_user_state does not set
Absent == [absent |-> TRUE]

new_user_state ==
    [memory |-> <<>>,
     chain |-> None,
     history |-> <<>>,
     system_message |-> DEFAULT_SYSTEM_MESSAGE,
     semantic_chain |-> "absent",
     fuzzy_corpus |-> Absent]

get_user_state(S, user_id) ==
    IF user_id \in DOMAIN S THEN S ELSE Put(S, user_id, new_user_state)

\* str.lower() on the letters the modelled texts use
LowerCase == [c \in {"U", "B", "W", "S", "A"} |->
                 CASE c = "U" -> "u" [] c = "B" -> "b" [] c = "W" -> "w"
                   [] c = "S" -> "s" [] c = "A" -> "a"]

lower(text) ==
    [k \in 1..Len(text) |->
        IF text[k] \in DOMAIN LowerCase THEN LowerCase[text[k]] ELSE text[k]]

\* str.split(): the maximal runs of non-whitespace characters
words_of(text) ==
    {SubSeq(text, p[1], p[2]) :
        p \in {q \in (1..Len(text)) \X (1..Len(text)) :
                 /\ q[1] <= q[2]
                 /\ \A k \in q[1]..q[2] : text[k] \notin Whitespace
                 /\ (q[1] = 1 \/ text[q[1] - 1] \in Whitespace)
                 /\ (q[2] = Len(text) \/ text[q[2] + 1] \in Whitespace)}}

create_fuzzy_corpus(vectorstore) ==
    [words |-> UNION {words_of(lower(vectorstore.chunks[i])) :
                         i \in 1..Len(vectorstore.chunks)}]

(* ------------------------- fuzzy matching ----------------------------- *)
\* str.split(): the words of a text in order
RECURSIVE split(_)
split(text) ==
    LET s == LStrip(text)
        n == IF \E k \in 1..Len(s) : s[k] \in Whitespace
             THEN (CHOOSE k \in 1..Len(s) :
                      s[k] \in Whitespace /\ \A j \in 1..(k - 1) : s[j] \notin Whitespace)
                  - 1
             ELSE Len(s)
    IN IF s = <<>> THEN <<>>
       ELSE <<SubSeq(s, 1, n)>> \o split(SubSeq(s, n + 1, Len(s)))

\* the characters thefuzz keeps: letters and digits
Punctuation == {"?", ".", ",", "!", "-"}

\* thefuzz.utils.full_process, the default processor of extractBests:
\* characters that are no letter or digit become blanks, the text is
\* lowercased and stripped
full_process(s) ==
    Strip(lower([k \in 1..Len(s) |-> IF s[k] \in Punctuation THEN " " ELSE s[k]]))

\* length of the longest common subsequence
RECURSIVE LCS(_, _)
LCS(a, b) ==
    IF a = <<>> \/ b = <<>> THEN 0
    ELSE IF Head(a) = Head(b) THEN 1 + LCS(Tail(a), Tail(b))
    ELSE LET x == LCS(Tail(a), b)
             y == LCS(a, Tail(b))
         IN IF x >= y THEN x ELSE y

\* fuzz.ratio before rounding, as the fraction num / den of 100: the
\* normalized Indel similarity 2 * LCS / (len(a) + len(b))
ratio_num(a, b) == IF Len(a) + Len(b) = 0 THEN 100 ELSE 200 * LCS(a, b)

ratio_den(a, b) == IF Len(a) + Len(b) = 0 THEN 1 ELSE Len(a) + Len(b)

\* int(round(score)), round half to even
fuzz_ratio(a, b) ==
    LET q == ratio_num(a, b) \div ratio_den(a, b)
        r == ratio_num(a, b) % ratio_den(a, b)
    IN IF 2 * r < ratio_den(a, b) THEN q
       ELSE IF 2 * r > ratio_den(a, b) THEN q + 1
       ELSE IF q % 2 = 0 THEN q ELSE q + 1

\* score >= score_cutoff on the score before rounding
reaches(a, b, score_cutoff) == ratio_num(a, b) >= score_cutoff * ratio_den(a, b)

\* the first position of the highest score
first_best(scored) ==
    CHOOSE k \in 1..Len(scored) :
        /\ \A j \in 1..Len(scored) : scored[j][2] <= scored[k][2]
        /\ \A j \in 1..(k - 1) : scored[j][2] < scored[k][2]

\* sorted by score, highest first, ties in the order of the choices
RECURSIVE by_score(_)
by_score(scored) ==
    IF scored = <<>> THEN <<>>
    ELSE LET k == first_best(scored)
         IN <<scored[k]>> \o
            by_score(SubSeq(scored, 1, k - 1) \o SubSeq(scored, k + 1, Len(scored)))

\* the `limit` parameter of process.extractBests, left at its default
extractBests_limit == 5

\* process.extractBests(query, choices, scorer=fuzz.ratio, score_cutoff=...)
extractBests(query, choices, score_cutoff) ==
    LET processed == full_process(query)
        kept == SelectSeq(choices,
                          LAMBDA c : reaches(processed, full_process(c), score_cutoff))
        sorted == by_score([k \in 1..Len(kept) |->
                               <<kept[k], fuzz_ratio(processed, full_process(kept[k]))>>])
    IN Slice(sorted, extractBests_limit)

\* the default of get_fuzzy_matches' threshold parameter
threshold_default == 80

get_fuzzy_matches(word, word_list) == extractBests(word, word_list, threshold_default)

RECURSIVE fuzzy_matches_of(_, _)
fuzzy_matches_of(words, fuzzy_corpus) ==
    IF words = <<>> THEN <<>>
    ELSE LET word == Head(words)
             matches == get_fuzzy_matches(word, fuzzy_corpus)
         IN (IF matches # <<>> /\ matches[1][1] # word
             THEN <<[original |-> word, matches |-> matches]>>
             ELSE <<>>)
            \o fuzzy_matches_of(Tail(words), fuzzy_corpus)

process_with_fuzzy_matching(question, fuzzy_corpus) ==
    [question |-> question,
     fuzzy_matches |-> fuzzy_matches_of(split(lower(question)), fuzzy_corpus)]

\* list(word_set): the words in any order
Orders(word_set) ==
    {order \in [1..Cardinality(word_set) -> word_set] :
        \A j, k \in 1..Cardinality(word_set) : order[j] = order[k] => j = k}

not_initialized == [success |-> FALSE, message |-> "Global vectorstore is not initialized."]

chain_created ==
    [success |-> TRUE, message |-> "Enhanced conversation chain created successfully."]

chain_exists ==
    [success |-> TRUE,
     message |-> "Conversation chain already exists and is ready to use."]

\* what the constructors called while binding do: similarity_search may raise
\* before the corpus is stored, ChatOpenAI / LLMChain / from_llm after it
BindOutcomes == {"returns", "corpus_raises", "chain_raises"}

create_or_refresh_user_chain(S, user_id, outcome) ==
    LET S1 == get_user_state(S, user_id)
        user_state == S1[user_id]
        with_corpus == [user_state EXCEPT
                           !.fuzzy_corpus = create_fuzzy_corpus(global_vectorstore)]
        bound == [with_corpus EXCEPT
                     !.chain = [system_message |-> user_state.system_message,
                                index |-> global_vectorstore],
                     !.semantic_chain = "LLMChain"]
    IN IF user_state.chain = None
       THEN IF global_vectorstore = None
            THEN [sessions |-> S1, result |-> not_initialized]
            ELSE IF outcome = "corpus_raises"
            THEN [sessions |-> S1, result |-> raised]
            ELSE IF outcome = "chain_raises"
            THEN [sessions |-> [S1 EXCEPT ![user_id] = with_corpus], result |-> raised]
            ELSE [sessions |-> [S1 EXCEPT ![user_id] = bound], result |-> chain_created]
       ELSE [sessions |-> S1, result |-> chain_exists]

\* the answer of the generation call: to the question sent, under the system
\* instruction the chain was bound to
generate(chain, question) == [to |-> question, under |-> chain.system_message]

\* ConversationalRetrievalChain.__call__ returning: the turn is saved to the
\* memory the chain was bound to, which is the user's memory object
save_context(S, user_id, question, answer) ==
    IF user_id \in DOMAIN S
    THEN [S EXCEPT ![user_id].memory =
                       Append(@, [question |-> question, answer |-> answer])]
    ELSE S

append_history(S, user_id, question, answer) ==
    IF user_id \in DOMAIN S
    THEN [S EXCEPT ![user_id].history =
                       Append(@, [question |-> question, answer |-> answer])]
    ELSE S

\* what the semantic chain may return for a question
Rephrasings(question) == {question, "rephrased"}

\* the calls a handler makes without await: the event-loop thread stays in
\* the handler until they return
BlockingCalls == {"semantic", "generate", "fallback"}

\* variant: the calls are awaited, the loop runs other handlers meanwhile
holds_loop_awaited(handler) == handler.pc \notin BlockingCalls

holds_loop(handler) == handler.pc \in BlockingCalls

LoopFree == \A r \in DOMAIN inflight : ~holds_loop(inflight[r])

\* variant: the except branch re-raises
except_handler_reraises(pc) == "raise"

\* variant: the except branch also covers its own call
except_handler_retries(pc) == "fallback"

\* `except Exception` of handle_userinput: where a raising call leads
except_handler(pc) == IF pc \in {"semantic", "generate"} THEN "fallback" ELSE "raise"

\* variant: the chain is not reset
with_system_message_keeps_chain(user_state, system_message) ==
    [user_state EXCEPT !.system_message = system_message]

\* set_system_message on the user state
with_system_message(user_state, system_message) ==
    [user_state EXCEPT !.system_message = system_message, !.chain = None]

\* variant: only the history list is emptied
cleared_history_only(user_state) ==
    [user_state EXCEPT !.history = <<>>, !.chain = None]

\* clear_history on the user state
cleared(user_state) ==
    [user_state EXCEPT !.memory = <<>>, !.history = <<>>, !.chain = None]

(* ------------------------- request handlers --------------------------- *)
\* a request arrives; its handler task waits at `await request.json()`
receive(op, user_id, arg) ==
    /\ submitted < MaxRequests
    /\ submitted' = submitted + 1
    /\ pending' = pending \cup
           {[id |-> submitted + 1, op |-> op, user_id |-> user_id, arg |-> arg]}
    /\ last3' = [op |-> "receive", id |-> submitted + 1]
    /\ UNCHANGED <<global_vectorstore, vectorstore_lock, pdf_cache, callers,
                   init_calls, user_sessions, inflight>>

\* the part of the response every handler records
response(r, status) == [op |-> r.op, id |-> r.id, user_id |-> r.user_id,
                        arg |-> r.arg, status |-> status]

\* memory and history of a user before a handler touched them
memory_of(S, user_id) == IF user_id \in DOMAIN S THEN S[user_id].memory ELSE <<>>

history_of(S, user_id) == IF user_id \in DOMAIN S THEN S[user_id].history ELSE <<>>

\* POST /ask up to the first external call of handle_userinput
ask_question(r, outcome) ==
    LET user_id == r.user_id
        ensured == IF user_id \in DOMAIN user_sessions
                   THEN user_sessions[user_id].chain = None
                   ELSE TRUE
        bind == IF ensured
                THEN create_or_refresh_user_chain(user_sessions, user_id, outcome)
                ELSE [sessions |-> user_sessions, result |-> chain_exists]
        S == get_user_state(bind.sessions, user_id)
        user_state == S[user_id]
        before == [mem0 |-> memory_of(user_sessions, user_id),
                   hist0 |-> history_of(user_sessions, user_id),
                   ensured |-> ensured]
    IN /\ r \in pending
       /\ r.op = "ask"
       /\ LoopFree
       /\ ensured \/ outcome = "returns"
       /\ pending' = pending \ {r}
       /\ IF bind.result = raised
          THEN /\ user_sessions' = bind.sessions
               /\ inflight' = inflight
               /\ last3' = response(r, "exception") @@ before @@ [calls |-> 0]
          ELSE IF user_state.semantic_chain = "absent"
          THEN /\ user_sessions' = S
               /\ inflight' = inflight
               /\ last3' = response(r, "exception") @@ before @@ [calls |-> 0]
          ELSE IF user_state.chain = None
          THEN /\ user_sessions' = S
               /\ inflight' = inflight
               /\ last3' = response(r, "error") @@ before @@
                           [message |->
                              "No conversation chain or unable to handle question."]
          ELSE /\ user_sessions' = S
               /\ inflight' = Put(inflight, r.id,
                                  [request |-> r, pc |-> "semantic",
                                   chain |-> user_state.chain,
                                   corrected |-> "pending",
                                   processed_question |-> "", calls |-> 0]
                                  @@ before)
               /\ last3' = [op |-> "ask_started", id |-> r.id]
       /\ UNCHANGED <<global_vectorstore, vectorstore_lock, pdf_cache, callers,
                      init_calls, submitted>>

\* fuzzy matching and semantic_chain.run return the processed question
ask_semantic(id, processed_question) ==
    /\ id \in DOMAIN inflight
    /\ inflight[id].pc = "semantic"
    /\ inflight' = [inflight EXCEPT ![id].pc = "generate",
                                    ![id].corrected = "returned",
                                    ![id].processed_question = processed_question]
    /\ last3' = [op |-> "ask_semantic", id |-> id]
    /\ UNCHANGED <<global_vectorstore, vectorstore_lock, pdf_cache, callers,
                   init_calls, user_sessions, pending, submitted>>

\* fuzzy matching or semantic_chain.run raises
ask_semantic_raises(id) ==
    /\ id \in DOMAIN inflight
    /\ inflight[id].pc = "semantic"
    /\ inflight' = [inflight EXCEPT ![id].pc = except_handler("semantic"),
                                    ![id].corrected = "raised"]
    /\ last3' = [op |-> "ask_semantic_raises", id |-> id]
    /\ UNCHANGED <<global_vectorstore, vectorstore_lock, pdf_cache, callers,
                   init_calls, user_sessions, pending, submitted>>

\* what the handler has when it answers
answered(h, path, sent, answer, forwarding_status) ==
    response(h.request, "success") @@
    [text |-> answer, sent |-> sent, path |-> path, chain |-> h.chain,
     corrected |-> h.corrected, calls |-> h.calls + 1, mem0 |-> h.mem0,
     hist0 |-> h.hist0, ensured |-> h.ensured,
     forwarding_status |-> forwarding_status]

\* conversation_chain(processed question) returns; history is appended, the
\* answer is forwarded and returned
ask_generate(id, forwarding_status) ==
    /\ id \in DOMAIN inflight
    /\ inflight[id].pc = "generate"
    /\ LET h == inflight[id]
           user_id == h.request.user_id
           answer == generate(h.chain, h.processed_question)
       IN /\ user_sessions' =
                 append_history(
                     save_context(user_sessions, user_id, h.processed_question, answer),
                     user_id, h.request.arg, answer)
          /\ last3' = answered(h, "normal", h.processed_question, answer,
                               forwarding_status)
    /\ inflight' = Del(inflight, id)
    /\ UNCHANGED <<global_vectorstore, vectorstore_lock, pdf_cache, callers,
                   init_calls, pending, submitted>>

\* conversation_chain(processed question) raises
ask_generate_raises(id) ==
    /\ id \in DOMAIN inflight
    /\ inflight[id].pc = "generate"
    /\ inflight' = [inflight EXCEPT ![id].pc = except_handler("generate"),
                                    ![id].calls = @ + 1]
    /\ last3' = [op |-> "ask_generate_raises", id |-> id]
    /\ UNCHANGED <<global_vectorstore, vectorstore_lock, pdf_cache, callers,
                   init_calls, user_sessions, pending, submitted>>

\* the except branch: conversation_chain(user question) returns; the answer is
\* forwarded and returned
ask_fallback(id, forwarding_status) ==
    /\ id \in DOMAIN inflight
    /\ inflight[id].pc = "fallback"
    /\ LET h == inflight[id]
           user_id == h.request.user_id
           answer == generate(h.chain, h.request.arg)
       IN /\ user_sessions' = save_context(user_sessions, user_id, h.request.arg, answer)
          /\ last3' = answered(h, "fallback", h.request.arg, answer, forwarding_status)
    /\ inflight' = Del(inflight, id)
    /\ UNCHANGED <<global_vectorstore, vectorstore_lock, pdf_cache, callers,
                   init_calls, pending, submitted>>

\* the except branch: conversation_chain(user question) raises and the
\* exception leaves the handler
ask_fallback_raises(id) ==
    /\ id \in DOMAIN inflight
    /\ inflight[id].pc = "fallback"
    /\ LET h == inflight[id]
       IN IF except_handler("fallback") = "raise"
          THEN /\ inflight' = Del(inflight, id)
               /\ last3' = response(h.request, "exception") @@
                           [calls |-> h.calls + 1, mem0 |-> h.mem0, hist0 |-> h.hist0,
                            ensured |-> h.ensured, corrected |-> h.corrected]
          ELSE /\ inflight' = [inflight EXCEPT ![id].pc = except_handler("fallback"),
                                               ![id].calls = @ + 1]
               /\ last3' = [op |-> "ask_fallback_raises", id |-> id]
    /\ UNCHANGED <<global_vectorstore, vectorstore_lock, pdf_cache, callers,
                   init_calls, user_sessions, pending, submitted>>

\* fuzzy matching and semantic_chain.run return, the match report observed;
\* fuzzy_corpus is the user's word list in the order list(word_set) gave it
ask_semantic_report(id, fuzzy_corpus, processed_question) ==
    /\ id \in DOMAIN inflight
    /\ inflight[id].pc = "semantic"
    /\ LET h == inflight[id]
           user_state == user_sessions[h.request.user_id]
           word_set == IF user_state.fuzzy_corpus = Absent
                       THEN {}
                       ELSE user_state.fuzzy_corpus.words
           result == process_with_fuzzy_matching(h.request.arg, fuzzy_corpus)
       IN /\ fuzzy_corpus \in Orders(word_set)
          /\ last3' = [op |-> "ask_semantic", id |-> id,
                       user_question |-> h.request.arg,
                       fuzzy_corpus |-> fuzzy_corpus,
                       question |-> result.question,
                       fuzzy_matches |-> result.fuzzy_matches]
    /\ inflight' = [inflight EXCEPT ![id].pc = "generate",
                                    ![id].corrected = "returned",
                                    ![id].processed_question = processed_question]
    /\ UNCHANGED <<global_vectorstore, vectorstore_lock, pdf_cache, callers,
                   init_calls, user_sessions, pending, submitted>>

\* POST /refresh_chain
refresh_chain(r, outcome) ==
    LET bind == create_or_refresh_user_chain(user_sessions, r.user_id, outcome)
    IN /\ r \in pending
       /\ r.op = "refresh_chain"
       /\ LoopFree
       /\ pending' = pending \ {r}
       /\ user_sessions' = bind.sessions
       /\ last3' = IF bind.result = raised
                   THEN response(r, "exception")
                   ELSE response(r, IF bind.result.success THEN "success" ELSE "error")
                        @@ [message |-> bind.result.message]
       /\ UNCHANGED <<global_vectorstore, vectorstore_lock, pdf_cache, callers,
                      init_calls, inflight, submitted>>

\* POST /set_system_message
set_system_message(r, outcome) ==
    LET S == get_user_state(user_sessions, r.user_id)
        S1 == [S EXCEPT ![r.user_id] = with_system_message(@, r.arg)]
        bind == create_or_refresh_user_chain(S1, r.user_id, outcome)
    IN /\ r \in pending
       /\ r.op = "set_system_message"
       /\ LoopFree
       /\ pending' = pending \ {r}
       /\ user_sessions' = bind.sessions
       /\ last3' = IF bind.result = raised
                   THEN response(r, "exception")
                   ELSE response(r, IF bind.result.success THEN "success" ELSE "error")
                        @@ [message |-> bind.result.message]
       /\ UNCHANGED <<global_vectorstore, vectorstore_lock, pdf_cache, callers,
                      init_calls, inflight, submitted>>

\* GET /get_system_message
get_system_message(r) ==
    LET S == get_user_state(user_sessions, r.user_id)
    IN /\ r \in pending
       /\ r.op = "get_system_message"
       /\ LoopFree
       /\ pending' = pending \ {r}
       /\ user_sessions' = S
       /\ last3' = response(r, "success") @@
                   [system_message |-> S[r.user_id].system_message]
       /\ UNCHANGED <<global_vectorstore, vectorstore_lock, pdf_cache, callers,
                      init_calls, inflight, submitted>>

\* variant: one shared memory and history for all users
clear_user_shared(S, user_id) == [u \in DOMAIN S |-> cleared(S[u])]

\* clear_history on the session map
clear_user(S, user_id) == [S EXCEPT ![user_id] = cleared(@)]

\* POST /clear_history
clear_history(r) ==
    /\ r \in pending
    /\ r.op = "clear_history"
    /\ LoopFree
    /\ pending' = pending \ {r}
    /\ IF r.user_id \in DOMAIN user_sessions
       THEN /\ user_sessions' = clear_user(user_sessions, r.user_id)
            /\ last3' = response(r, "success") @@
                        [message |-> "Chat history cleared.",
                         mem0 |-> user_sessions[r.user_id].memory,
                         hist0 |-> user_sessions[r.user_id].history]
       ELSE /\ user_sessions' = user_sessions
            /\ last3' = response(r, "error") @@
                        [message |-> "No user session found to clear."]
    /\ UNCHANGED <<global_vectorstore, vectorstore_lock, pdf_cache, callers,
                   init_calls, inflight, submitted>>

\* variant: the session is emptied and kept
logged_out_emptied(S, user_id) ==
    IF user_id \in DOMAIN S THEN [S EXCEPT ![user_id] = cleared(@)] ELSE S

\* logout on the session map
logged_out(S, user_id) == IF user_id \in DOMAIN S THEN Del(S, user_id) ELSE S

\* POST /logout
logout(r) ==
    /\ r \in pending
    /\ r.op = "logout"
    /\ LoopFree
    /\ pending' = pending \ {r}
    /\ user_sessions' = logged_out(user_sessions, r.user_id)
    /\ last3' = response(r, "success") @@
                [message |-> "User session cleared.",
                 known |-> r.user_id \in DOMAIN user_sessions,
                 mem0 |-> memory_of(user_sessions, r.user_id),
                 hist0 |-> history_of(user_sessions, r.user_id)]
    /\ UNCHANGED <<global_vectorstore, vectorstore_lock, pdf_cache, callers,
                   init_calls, inflight, submitted>>

ForwardingStatus == {"success", "failed"}

\* the requests clients send
RequestInputs ==
    {<<"ask", u, q>> : u \in Users, q \in Questions}
    \cup {<<"set_system_message", u, m>> : u \in Users, m \in SystemMessages}
    \cup {<<op, u, "">> : op \in {"refresh_chain", "get_system_message",
                                  "clear_history", "logout"}, u \in Users}

\* the thread that runs startup_event
StartupThread == "t1"

\* the server: the index is built by the startup thread, requests are handled
\* on the event loop
ChatNext ==
    \/ init_call(StartupThread) /\ UNCHANGED vars
    \/ init_enter(StartupThread) /\ UNCHANGED vars
    \/ \E disk \in Disks : init_extract(StartupThread, disk) /\ UNCHANGED vars
    \/ init_build(StartupThread) /\ UNCHANGED vars
    \/ init_build_raises(StartupThread) /\ UNCHANGED vars
    \/ \E i \in RequestInputs : receive(i[1], i[2], i[3]) /\ UNCHANGED vars
    \/ \E r \in pending, o \in BindOutcomes : ask_question(r, o) /\ UNCHANGED vars
    \/ \E id \in DOMAIN inflight :
          \E q \in Rephrasings(inflight[id].request.arg) :
              ask_semantic(id, q) /\ UNCHANGED vars
    \/ \E id \in DOMAIN inflight : ask_semantic_raises(id) /\ UNCHANGED vars
    \/ \E id \in DOMAIN inflight, f \in ForwardingStatus :
          ask_generate(id, f) /\ UNCHANGED vars
    \/ \E id \in DOMAIN inflight : ask_generate_raises(id) /\ UNCHANGED vars
    \/ \E id \in DOMAIN inflight, f \in ForwardingStatus :
          ask_fallback(id, f) /\ UNCHANGED vars
    \/ \E id \in DOMAIN inflight : ask_fallback_raises(id) /\ UNCHANGED vars
    \/ \E r \in pending, o \in BindOutcomes : refresh_chain(r, o) /\ UNCHANGED vars
    \/ \E r \in pending, o \in BindOutcomes : set_system_message(r, o) /\ UNCHANGED vars
    \/ \E r \in pending : get_system_message(r) /\ UNCHANGED vars
    \/ \E r \in pending : clear_history(r) /\ UNCHANGED vars
    \/ \E r \in pending : logout(r) /\ UNCHANGED vars

ChatSpec == Start /\ [][ChatNext]_<<vars, vars3>>

\* startup_event runs on the event loop: no handler runs while it is inside
\* initialize_global_vectorstore, and it does not run while a handler does
StartupIdle == callers[StartupThread].pc = "idle"

Quiet == pending = {} /\ inflight = EmptyMap

\* one client that sends its next request when the last one was answered
TalkInputs == {i \in RequestInputs : i[2] = "u1"}

TalkNext ==
    \/ Quiet /\ init_call(StartupThread) /\ UNCHANGED vars
    \/ init_enter(StartupThread) /\ UNCHANGED vars
    \/ \E disk \in Disks : init_extract(StartupThread, disk) /\ UNCHANGED vars
    \/ init_build(StartupThread) /\ UNCHANGED vars
    \/ init_build_raises(StartupThread) /\ UNCHANGED vars
    \/ \E i \in TalkInputs :
          Quiet /\ StartupIdle /\ receive(i[1], i[2], i[3]) /\ UNCHANGED vars
    \/ \E r \in pending, o \in BindOutcomes : ask_question(r, o) /\ UNCHANGED vars
    \/ \E id \in DOMAIN inflight :
          \E q \in Rephrasings(inflight[id].request.arg) :
              ask_semantic(id, q) /\ UNCHANGED vars
    \/ \E id \in DOMAIN inflight : ask_semantic_raises(id) /\ UNCHANGED vars
    \/ \E id \in DOMAIN inflight, f \in ForwardingStatus :
          ask_generate(id, f) /\ UNCHANGED vars
    \/ \E id \in DOMAIN inflight : ask_generate_raises(id) /\ UNCHANGED vars
    \/ \E id \in DOMAIN inflight, f \in ForwardingStatus :
          ask_fallback(id, f) /\ UNCHANGED vars
    \/ \E id \in DOMAIN inflight : ask_fallback_raises(id) /\ UNCHANGED vars
    \/ \E r \in pending, o \in BindOutcomes : refresh_chain(r, o) /\ UNCHANGED vars
    \/ \E r \in pending, o \in BindOutcomes : set_system_message(r, o) /\ UNCHANGED vars
    \/ \E r \in pending : get_system_message(r) /\ UNCHANGED vars
    \/ \E r \in pending : clear_history(r) /\ UNCHANGED vars
    \/ \E r \in pending : logout(r) /\ UNCHANGED vars

TalkSpec == Start /\ [][TalkNext]_<<vars, vars3>>

\* two clients whose requests arrive at any time, the index built at startup
LoopInputs == {i \in RequestInputs : i[1] \in {"ask", "clear_history"}}

LoopNext ==
    \/ Quiet /\ init_call(StartupThread) /\ UNCHANGED vars
    \/ init_enter(StartupThread) /\ UNCHANGED vars
    \/ init_extract(StartupThread, Readable) /\ UNCHANGED vars
    \/ init_build(StartupThread) /\ UNCHANGED vars
    \/ \E i \in LoopInputs :
          StartupIdle /\ receive(i[1], i[2], i[3]) /\ UNCHANGED vars
    \/ \E r \in pending : ask_question(r, "returns") /\ UNCHANGED vars
    \/ \E id \in DOMAIN inflight :
          \E q \in Rephrasings(inflight[id].request.arg) :
              ask_semantic(id, q) /\ UNCHANGED vars
    \/ \E id \in DOMAIN inflight : ask_semantic_raises(id) /\ UNCHANGED vars
    \/ \E id \in DOMAIN inflight : ask_generate(id, "success") /\ UNCHANGED vars
    \/ \E id \in DOMAIN inflight : ask_generate_raises(id) /\ UNCHANGED vars
    \/ \E id \in DOMAIN inflight : ask_fallback(id, "success") /\ UNCHANGED vars
    \/ \E id \in DOMAIN inflight : ask_fallback_raises(id) /\ UNCHANGED vars
    \/ \E r \in pending : clear_history(r) /\ UNCHANGED vars

LoopSpec == Start /\ [][LoopNext]_<<vars, vars3>>

\* the corrector on spelled-out texts: one client, one request at a time
FuzzyTexts ==
    { <<"u", "b", "i", "k">>,
      <<"S", "e", "l", "l", " ", "u", "b", "i", "k">>,
      <<"a", "a", "b", " ", "a", "b", "b", " ", "b", "a", "b", " ", "a", "b", "a", " ", "a", "b", "c", " ", "c", "a", "b">> }

FuzzyDisks ==
    {[i \in 1..Len(pdf_paths) |-> IF i = 2 THEN text ELSE <<>>] : text \in FuzzyTexts}

FuzzyQuestions ==
    { <<"W", "h", "a", "t", " ", "d", "o", "e", "s", " ", "U", "b", "e", "r", " ", "S", "o", "l", "u", "t", "i", "o", "n", "s", " ", "s", "e", "l", "l", "?">>,
      <<"A", "b">>,
      <<"s", "e", "l", "l", " ", "a", "b", "?", " ", "a", "b">> }

RECURSIVE first_occurrences(_)
first_occurrences(words) ==
    IF words = <<>> THEN <<>>
    ELSE <<Head(words)>> \o
         first_occurrences(SelectSeq(Tail(words), LAMBDA w : w # Head(words)))

Reverse(s) == [k \in 1..Len(s) |-> s[Len(s) + 1 - k]]

\* two of the orders list(word_set) may give: as the words first occur in
\* the indexed text, and the reverse
FuzzyOrders ==
    IF global_vectorstore = None THEN {<<>>}
    ELSE LET words == first_occurrences(split(lower(global_vectorstore.chunks[1])))
         IN {words, Reverse(words)}

FuzzyNext ==
    \/ Quiet /\ init_call(StartupThread) /\ UNCHANGED vars
    \/ init_enter(StartupThread) /\ UNCHANGED vars
    \/ \E disk \in FuzzyDisks : init_extract(StartupThread, disk) /\ UNCHANGED vars
    \/ init_build(StartupThread) /\ UNCHANGED vars
    \/ \E q \in FuzzyQuestions :
          Quiet /\ StartupIdle /\ receive("ask", "u1", q) /\ UNCHANGED vars
    \/ \E r \in pending : ask_question(r, "returns") /\ UNCHANGED vars
    \/ \E id \in DOMAIN inflight :
          \E order \in FuzzyOrders :
              ask_semantic_report(id, order, inflight[id].request.arg)
              /\ UNCHANGED vars
    \/ \E id \in DOMAIN inflight : ask_generate(id, "success") /\ UNCHANGED vars

FuzzySpec == Start /\ [][FuzzyNext]_<<vars, vars3>>

(* ======================= the two servers =============================== *)
\* the quiz engine used by several clients, each with the session id it was
\* given or with none, while the clock runs
OwnerHeaders == HeaderInputs \ {0}

OwnerQuizIds == QuizIdInputs \ {0}

OwnerQuestionIds == QuestionIdInputs \ {0}

OwnerNext ==
    \/ Tick(session_timeout + 1) /\ UNCHANGED vars3
    \/ \E h \in OwnerHeaders, t \in OneLineResponses :
          start_quiz(h, t) /\ UNCHANGED vars3
    \/ \E h \in OwnerHeaders, qz \in OwnerQuizIds, qn \in OwnerQuestionIds :
          submit_answer(h, qz, qn, "x") /\ UNCHANGED vars3
    \/ \E h \in OwnerHeaders, qz \in QuizIdInputs :
          get_quiz_result(h, qz) /\ UNCHANGED vars3

OwnerSpec == Start /\ [][OwnerNext]_<<vars, vars3>>

\* two users of the conversation server, one request at a time
UsersInputs ==
    {i \in RequestInputs :
        i[1] \in {"ask", "set_system_message", "clear_history", "logout"}}

UsersNext ==
    \/ Quiet /\ init_call(StartupThread) /\ UNCHANGED vars
    \/ init_enter(StartupThread) /\ UNCHANGED vars
    \/ init_extract(StartupThread, Readable) /\ UNCHANGED vars
    \/ init_build(StartupThread) /\ UNCHANGED vars
    \/ \E i \in UsersInputs :
          Quiet /\ StartupIdle /\ receive(i[1], i[2], i[3]) /\ UNCHANGED vars
    \/ \E r \in pending : ask_question(r, "returns") /\ UNCHANGED vars
    \/ \E id \in DOMAIN inflight :
          ask_semantic(id, inflight[id].request.arg) /\ UNCHANGED vars
    \/ \E id \in DOMAIN inflight : ask_semantic_raises(id) /\ UNCHANGED vars
    \/ \E id \in DOMAIN inflight : ask_generate(id, "success") /\ UNCHANGED vars
    \/ \E id \in DOMAIN inflight : ask_generate_raises(id) /\ UNCHANGED vars
    \/ \E id \in DOMAIN inflight : ask_fallback(id, "success") /\ UNCHANGED vars
    \/ \E id \in DOMAIN inflight : ask_fallback_raises(id) /\ UNCHANGED vars
    \/ \E r \in pending : set_system_message(r, "returns") /\ UNCHANGED vars
    \/ \E r \in pending : clear_history(r) /\ UNCHANGED vars
    \/ \E r \in pending : logout(r) /\ UNCHANGED vars

\* a deployment runs one of the two servers
Server2Idle == last.op = "startup"

Server3Idle == init_calls = 0 /\ submitted = 0

IsolationNext ==
    \/ Server3Idle /\ OwnerNext
    \/ Server2Idle /\ UsersNext

IsolationSpec == Start /\ [][IsolationNext]_<<vars, vars3>>

(* ======================= properties of the quiz engine ================= *)
Handlers == {"debug_session", "start_quiz", "submit_answer", "get_quiz_result"}

HasQuiz(S, sid, qz) == sid \in DOMAIN S /\ qz \in DOMAIN S[sid].active_quizzes

QuizOf(S, sid, qz) == S[sid].active_quizzes[qz]

QuizKeys(S) ==
    UNION {{<<sid, qz>> : qz \in DOMAIN S[sid].active_quizzes} : sid \in DOMAIN S}

Answered(quiz) ==
    {i \in 1..Len(quiz.questions) : quiz.questions[i].id \in DOMAIN quiz.answers}

\* the lines of a text by position: the k-th separator, the k-th raw line, its
\* non-blank characters, the line without its surrounding blanks
NewlineAt(text) == {i \in 1..Len(text) : text[i] = "\n"}

SepPos(text, k) ==
    IF k = 0 THEN 0
    ELSE IF k > Cardinality(NewlineAt(text)) THEN Len(text) + 1
    ELSE CHOOSE i \in NewlineAt(text) :
             Cardinality({j \in NewlineAt(text) : j < i}) = k - 1

RawLine(text, k) == SubSeq(text, SepPos(text, k - 1) + 1, SepPos(text, k) - 1)

Ink(line) == {i \in 1..Len(line) : line[i] # " "}

Trimmed(line) ==
    SubSeq(line, CHOOSE i \in Ink(line) : \A j \in Ink(line) : i <= j,
                 CHOOSE i \in Ink(line) : \A j \in Ink(line) : j <= i)

UsableLines(text) ==
    {k \in 1..(Cardinality(NewlineAt(text)) + 1) : Ink(RawLine(text, k)) # {}}

NthUsable(text, n) ==
    Trimmed(RawLine(text, CHOOSE k \in UsableLines(text) :
                              Cardinality({j \in UsableLines(text) : j < k}) = n - 1))

\* C1: in every reachable state the current-question cursor of every quiz is
\* at most the number of questions of that quiz.
C1_CursorWithinQuestionCount ==
    \A k \in QuizKeys(sessions) :
        QuizOf(sessions, k[1], k[2]).current_question
            <= Len(QuizOf(sessions, k[1], k[2]).questions)

\* C2: no step lowers the cursor of a quiz; the quiz_complete flag of an
\* accepted submit_answer is true exactly when the cursor after the call is at
\* least the question count; and an accepted call on a quiz that was already
\* complete reports complete again.
C2_CursorMonotoneCompleteExact ==
    [][ /\ \A k \in QuizKeys(sessions) :
              HasQuiz(sessions', k[1], k[2]) =>
                  /\ QuizOf(sessions', k[1], k[2]).current_question
                         >= QuizOf(sessions, k[1], k[2]).current_question
                  /\ QuizOf(sessions', k[1], k[2]).questions
                         = QuizOf(sessions, k[1], k[2]).questions
        /\ (last'.op = "submit_answer" /\ last'.status = 200) =>
              LET before == QuizOf(sessions, last'.session_id, last'.quiz_id)
                  after == QuizOf(sessions', last'.session_id, last'.quiz_id)
              IN /\ last'.quiz_complete
                        = (after.current_question >= Len(after.questions))
                 /\ before.current_question >= Len(before.questions)
                        => last'.quiz_complete
      ]_vars

\* C2 witness: an accepted call on a quiz whose cursor had already reached the
\* question count reports complete.
C2_Witness ==
    /\ last.op = "submit_answer"
    /\ last.status = 200
    /\ last.quiz_complete
    /\ LET quiz == QuizOf(sessions, last.session_id, last.quiz_id)
       IN quiz.current_question > Len(quiz.questions)

\* C3 as stated: submit_answer on an existing quiz with a question identifier
\* that is not in the quiz's question list fails with the not-found error and
\* leaves the quiz as it was.
C3_UnknownQuestionNotFound ==
    [][ ( /\ last'.op = "submit_answer"
          /\ HasQuiz(sessions, last'.session_id, last'.quiz_id)
          /\ last'.question_id
                 \notin QuestionIds(QuizOf(sessions, last'.session_id, last'.quiz_id)) )
        => /\ last'.status = 404
           /\ last'.detail = "Question not found in quiz"
           /\ QuizOf(sessions', last'.session_id, last'.quiz_id)
                  = QuizOf(sessions, last'.session_id, last'.quiz_id)
      ]_vars

\* C3 amended: with a well-formed (UUID) question identifier that is not in
\* the quiz's question list the call fails with 404 "Question not found in
\* quiz"; with one that is not a UUID it fails with 400; either way the quiz
\* is left as it was.
C3_UnknownQuestionRejected ==
    [][ ( /\ last'.op = "submit_answer"
          /\ HasQuiz(sessions, last'.session_id, last'.quiz_id)
          /\ last'.question_id
                 \notin QuestionIds(QuizOf(sessions, last'.session_id, last'.quiz_id)) )
        => /\ last'.question_id >= 0
                  => /\ last'.status = 404
                     /\ last'.detail = "Question not found in quiz"
           /\ last'.question_id < 0
                  => /\ last'.status = 400
                     /\ last'.detail = "Invalid quiz or question ID format"
           /\ QuizOf(sessions', last'.session_id, last'.quiz_id)
                  = QuizOf(sessions, last'.session_id, last'.quiz_id)
      ]_vars

\* C3 witness: a quiz that already holds an answer has just refused an
\* unknown well-formed question identifier.
C3_Witness ==
    /\ last.op = "submit_answer"
    /\ last.status = 404
    /\ last.detail = "Question not found in quiz"
    /\ last.question_id >= 0
    /\ HasQuiz(sessions, last.session_id, last.quiz_id)
    /\ QuizOf(sessions, last.session_id, last.quiz_id).answers # EmptyMap

\* C4: submit_answer with a question identifier of the quiz succeeds, stores
\* the submitted text for that question, keeps every other answer, and raises
\* the cursor by exactly one, answered before or not.
C4_SubmitRecordsAndAdvances ==
    [][ ( /\ last'.op = "submit_answer"
          /\ HasQuiz(sessions, last'.session_id, last'.quiz_id)
          /\ last'.question_id
                 \in QuestionIds(QuizOf(sessions, last'.session_id, last'.quiz_id)) )
        => LET before == QuizOf(sessions, last'.session_id, last'.quiz_id)
               after == QuizOf(sessions', last'.session_id, last'.quiz_id)
           IN /\ last'.status = 200
              /\ last'.stored_answer \in UserAnswers
              /\ DOMAIN after.answers
                     = DOMAIN before.answers \cup {last'.question_id}
              /\ after.answers[last'.question_id] = last'.stored_answer
              /\ \A q \in DOMAIN before.answers \ {last'.question_id} :
                     after.answers[q] = before.answers[q]
              /\ after.current_question = before.current_question + 1
              /\ after.questions = before.questions
      ]_vars

\* C4 witness: an accepted submission on a quiz with two answered questions
\* and more submissions than answered questions (some answer was replaced).
C4_Witness ==
    /\ last.op = "submit_answer"
    /\ last.status = 200
    /\ LET quiz == QuizOf(sessions, last.session_id, last.quiz_id)
       IN /\ Cardinality(DOMAIN quiz.answers) >= 2
          /\ quiz.current_question > Cardinality(DOMAIN quiz.answers)

\* C5: get_quiz_result on an existing quiz lists every question in question
\* order with its stored answer or "No answer provided", reports the question
\* count and the number of distinct answered questions, and leaves the quiz's
\* answers and cursor as they were.
C5_ResultReportsAnswers ==
    [][ ( /\ last'.op = "get_quiz_result"
          /\ HasQuiz(sessions, last'.session_id, last'.quiz_id) )
        => LET before == QuizOf(sessions, last'.session_id, last'.quiz_id)
               after == QuizOf(sessions', last'.session_id, last'.quiz_id)
           IN /\ last'.status = 200
              /\ Len(last'.answers) = Len(before.questions)
              /\ \A i \in 1..Len(before.questions) :
                     /\ last'.answers[i].question = before.questions[i].question
                     /\ i \in Answered(before) =>
                            last'.answers[i].user_answer
                                = before.answers[before.questions[i].id]
                     /\ i \notin Answered(before) =>
                            last'.answers[i].user_answer = "No answer provided"
              /\ last'.total_questions = Len(before.questions)
              /\ last'.answered_questions = Cardinality(Answered(before))
              /\ after.answers = before.answers
              /\ after.current_question = before.current_question
      ]_vars

\* C5 witness: a result with an answered and an unanswered question, on a quiz
\* where an answer was resubmitted.
C5_Witness ==
    /\ last.op = "get_quiz_result"
    /\ last.status = 200
    /\ last.answered_questions >= 1
    /\ last.answered_questions < last.total_questions
    /\ QuizOf(sessions, last.session_id, last.quiz_id).current_question
           > last.answered_questions

\* C6: start_quiz creates a quiz with min(requested count, usable lines)
\* questions, the usable lines in their order, each under its own identifier,
\* with cursor 0 and no answers.
C6_StartQuizQuestions ==
    (last.op = "start_quiz" /\ last.status = 200) =>
        LET quiz == QuizOf(sessions, last.session_id, last.quiz_id)
            usable == Cardinality(UsableLines(last.answer_text))
            n == IF num_questions_default < usable
                 THEN num_questions_default ELSE usable
        IN /\ Len(quiz.questions) = n
           /\ \A i \in 1..n :
                  quiz.questions[i].question = NthUsable(last.answer_text, i)
           /\ \A i, j \in 1..n :
                  i # j => quiz.questions[i].id # quiz.questions[j].id
           /\ quiz.current_question = 0
           /\ quiz.answers = EmptyMap
           /\ last.questions = quiz.questions

\* C6 witness: a quiz started from a text with more usable lines than the
\* requested count.
C6_Witness ==
    /\ last.op = "start_quiz"
    /\ last.status = 200
    /\ Cardinality(UsableLines(last.answer_text)) > num_questions_default
    /\ Len(last.questions) = num_questions_default

\* C7: a start_quiz whose generated text has no usable line fails and adds no
\* quiz.
C7_EmptyGenerationFails ==
    ( /\ last.op = "start_quiz"
      /\ "answer_text" \in DOMAIN last
      /\ UsableLines(last.answer_text) = {} )
    => /\ last.status # 200
       /\ ~HasQuiz(sessions, last.session_id, last.quiz_id)

(* ======================= properties of the session store =============== *)
\* a handler step whose X-Session-ID names a session of the map
LooksUp(h) == last'.op \in Handlers /\ last'.header = h /\ h \in DOMAIN sessions

FreshSession(session) ==
    /\ session.memory = <<>>
    /\ session.active_quizzes = EmptyMap
    /\ session.chain = "None"

\* C8: a lookup by the identifier of a session last accessed more than the
\* TTL ago removes that session and serves the request, without a lookup
\* error, on a session under a newly allocated, different identifier that
\* holds nothing of the old one: fresh when the handler only looks up, and
\* holding only what this very request put there otherwise.
C8_ExpiredSessionReplaced ==
    [][ \A h \in DOMAIN sessions :
          (LooksUp(h) /\ now - sessions[h].last_accessed > session_timeout_minutes)
          => /\ h \notin DOMAIN sessions'
             /\ \E n \in DOMAIN sessions' :
                  /\ DOMAIN sessions' \ DOMAIN sessions = {n}
                  /\ n # h
                  /\ n = nextSessionId
                  /\ nextSessionId' = n + 1
                  /\ sessions'[n].created_at = now
                  /\ sessions'[n].last_accessed = now
                  /\ last'.op = "debug_session" =>
                         /\ last'.status = 200
                         /\ last'.session_id = n
                         /\ FreshSession(sessions'[n])
                  /\ (last'.op = "start_quiz" /\ last'.status = 200) =>
                         /\ last'.session_id = n
                         /\ sessions'[n].memory = <<last'.answer_text>>
                         /\ DOMAIN sessions'[n].active_quizzes = {last'.quiz_id}
                  /\ (last'.op = "start_quiz" /\ last'.status = 500) =>
                         /\ sessions'[n].memory = <<>>
                         /\ sessions'[n].active_quizzes = EmptyMap
      ]_vars

\* C8 witness: the first session issued, which held a quiz, is gone and the
\* lookup that presented its identifier was served on the session issued by
\* that lookup, which is fresh.
C8_Witness ==
    /\ last.op = "debug_session"
    /\ last.header = 1
    /\ last.session_id = 2
    /\ nextSessionId = 3
    /\ nextQuizId = 2
    /\ DOMAIN sessions = {2}
    /\ FreshSession(sessions[2])

\* C9: a lookup by the identifier of a session that is present and was last
\* accessed no longer than the TTL ago serves the request on that session,
\* allocates no session, keeps what the session held and sets its last access
\* to the current time, however long ago the session was created.
C9_LiveSessionReturnedAndTouched ==
    [][ \A h \in DOMAIN sessions :
          (LooksUp(h) /\ now - sessions[h].last_accessed <= session_timeout_minutes)
          => /\ DOMAIN sessions' = DOMAIN sessions
             /\ nextSessionId' = nextSessionId
             /\ sessions'[h].last_accessed = now
             /\ sessions'[h].created_at = sessions[h].created_at
             /\ \A o \in DOMAIN sessions \ {h} : sessions'[o] = sessions[o]
             /\ last'.status # 500 => last'.session_id = h
             /\ last'.op = "debug_session" =>
                    /\ last'.status = 200
                    /\ sessions'[h].memory = sessions[h].memory
                    /\ sessions'[h].active_quizzes = sessions[h].active_quizzes
                    /\ sessions'[h].chain = sessions[h].chain
             /\ last'.op = "start_quiz" =>
                    /\ SubSeq(sessions'[h].memory, 1, Len(sessions[h].memory))
                           = sessions[h].memory
                    /\ \A q \in DOMAIN sessions[h].active_quizzes :
                           /\ q \in DOMAIN sessions'[h].active_quizzes
                           /\ sessions'[h].active_quizzes[q]
                                  = sessions[h].active_quizzes[q]
      ]_vars

\* C9 witness: a session created more than the TTL ago, holding a quiz, has
\* just been served by a lookup under its own identifier.
C9_Witness ==
    /\ last.op = "debug_session"
    /\ last.header = last.session_id
    /\ last.header \in DOMAIN sessions
    /\ now - sessions[last.header].created_at > session_timeout_minutes
    /\ sessions[last.header].last_accessed = now
    /\ sessions[last.header].active_quizzes # EmptyMap

\* C10: after any session lookup the session map holds no session whose last
\* access is older than the TTL, as after a sweep.
C10_NoExpiredSessionAfterLookup ==
    last.op \in Handlers => sessions = cleanup_expired_sessions(sessions)

(* ======================= properties of the shared index ================ *)
InBuild(t) == callers[t].pc \in {"extract", "build"}

Blank(text) == \A i \in 1..Len(text) : text[i] \in {" ", "\n"}

\* C11: under any interleaving of concurrent initialization calls at most one
\* caller is inside the build and it holds the lock; a caller that arrives
\* meanwhile stays waiting until the lock is free; the index is published
\* once, from None, as the complete index of the builder's whole text.
C11_SingleBuild ==
    [][ /\ \A t, u \in Threads : (InBuild(t) /\ InBuild(u)) => t = u
        /\ \A t \in Threads : InBuild(t) <=> vectorstore_lock = t
        /\ \A t \in Threads :
               (callers[t].pc = "acquire" /\ callers'[t].pc # "acquire")
               => \A u \in Threads : ~InBuild(u)
        /\ global_vectorstore' # global_vectorstore
               => /\ global_vectorstore = None
                  /\ \E t \in Threads :
                       /\ callers[t].pc = "build"
                       /\ ~Blank(callers[t].text)
                       /\ global_vectorstore'.chunks = <<Strip(callers[t].text)>>
                       /\ callers'[t].result.success
        /\ global_vectorstore' = None
               => \A t \in Threads : callers'[t].result # created
      ]_vars3

\* C11 witness: a build is in progress (one caller holds the lock, the index
\* is not yet published) while the other caller has arrived and waits.
C11_Witness ==
    /\ global_vectorstore = None
    /\ \E t, u \in Threads :
           /\ callers[t].pc = "build"
           /\ vectorstore_lock = t
           /\ callers[u].pc = "acquire"

\* C12: once the index is built no step changes it: no caller enters the
\* build again, a further initialization call returns success with "already
\* initialized", and no request handler touches the index.
C12_IndexImmutable ==
    [][ global_vectorstore # None =>
          /\ global_vectorstore' = global_vectorstore
          /\ \A t \in Threads : ~InBuild(t)'
          /\ last3'.op = "init_enter" =>
                 /\ callers'[last3'.thread].pc = "idle"
                 /\ callers'[last3'.thread].result.success
                 /\ callers'[last3'.thread].result.message
                        = "[SYSTEM MESSAGE] Vectorstore is already initialized."
      ]_vars3

\* C12 witness: a further initialization call has returned after a user has
\* bound a chain to the index and asked a question.
C12_Witness ==
    /\ last3.op = "init_enter"
    /\ global_vectorstore # None
    /\ callers[last3.thread].result = already_initialized
    /\ \E u \in DOMAIN user_sessions :
           /\ user_sessions[u].chain # None
           /\ user_sessions[u].memory # <<>>

\* C13: a build over PDFs that yield no text returns failure, leaves the index
\* None and the lock free, and every initialization call that finds the index
\* None enters the build again.
C13_EmptyCorpusFails ==
    [][ /\ (last3'.op = "init_extract" /\ Blank(last3'.text))
           => /\ callers'[last3'.thread].pc = "idle"
              /\ ~callers'[last3'.thread].result.success
              /\ global_vectorstore' = None
              /\ vectorstore_lock' = "None"
        /\ (last3'.op = "init_enter" /\ global_vectorstore = None)
           => /\ callers'[last3'.thread].pc = "extract"
              /\ callers'[last3'.thread].result # already_initialized
      ]_vars3

\* C13 witness: after one caller's build failed for lack of text, another
\* call has entered the build and read the PDFs again.
C13_Witness ==
    /\ last3.op = "init_extract"
    /\ Blank(last3.text)
    /\ init_calls >= 2
    /\ \E t \in Threads : t # last3.thread /\ callers[t].result = no_text

(* ======================= properties of the conversations =============== *)
\* the ask requests that leave `pending` in this step
Begins(r) == r \in pending /\ r \notin pending' /\ r.op = "ask"

\* C14: set_system_message stores the new instruction and leaves memory and
\* history as they were; from then on every chain of the user, every chain an
\* ask in flight runs on and every answer returned is bound to the user's
\* current instruction, so a binding made under an earlier one is not used.
C14_SystemMessageRebinds ==
    [][ /\ last3'.op = "set_system_message" =>
              LET u == last3'.user_id
              IN /\ u \in DOMAIN user_sessions'
                 /\ user_sessions'[u].system_message = last3'.arg
                 /\ u \in DOMAIN user_sessions =>
                        /\ user_sessions'[u].memory = user_sessions[u].memory
                        /\ user_sessions'[u].history = user_sessions[u].history
                 /\ u \notin DOMAIN user_sessions =>
                        /\ user_sessions'[u].memory = <<>>
                        /\ user_sessions'[u].history = <<>>
        /\ \A u \in DOMAIN user_sessions' :
              user_sessions'[u].chain # None =>
                  user_sessions'[u].chain.system_message
                      = user_sessions'[u].system_message
        /\ \A id \in DOMAIN inflight' :
              LET u == inflight'[id].request.user_id
              IN /\ u \in DOMAIN user_sessions'
                 /\ inflight'[id].chain.system_message
                        = user_sessions'[u].system_message
        /\ (last3'.op = "ask" /\ last3'.status = "success") =>
              last3'.text.under = user_sessions'[last3'.user_id].system_message
      ]_vars3

\* C14 witness: an answer given under the new instruction, on a memory that
\* still holds the turn answered under the default instruction.
C14_Witness ==
    /\ last3.op = "ask"
    /\ last3.status = "success"
    /\ last3.text.under = "m1"
    /\ Len(last3.mem0) = 1
    /\ last3.mem0[1].answer.under = DEFAULT_SYSTEM_MESSAGE
    /\ user_sessions[last3.user_id].memory[1] = last3.mem0[1]

\* C15: clear_history on an existing session keeps the session and its system
\* instruction, empties memory and history and unbinds the chain; an ask that
\* begins on a session without a chain binds one before it runs, or ends
\* without an answer, and one that begins on an empty memory and answers
\* leaves exactly its own turn there.
C15_ClearHistory ==
    [][ /\ (last3'.op = "clear_history" /\ last3'.user_id \in DOMAIN user_sessions) =>
              LET u == last3'.user_id
              IN /\ last3'.status = "success"
                 /\ u \in DOMAIN user_sessions'
                 /\ user_sessions'[u].memory = <<>>
                 /\ user_sessions'[u].history = <<>>
                 /\ user_sessions'[u].chain = None
                 /\ user_sessions'[u].system_message = user_sessions[u].system_message
        /\ \A r \in pending :
              ( /\ Begins(r)
                /\ r.user_id \in DOMAIN user_sessions
                /\ user_sessions[r.user_id].chain = None )
              => \/ /\ last3'.op = "ask"
                    /\ last3'.status \in {"exception", "error"}
                    /\ user_sessions'[r.user_id].memory = user_sessions[r.user_id].memory
                    /\ user_sessions'[r.user_id].chain = None
                 \/ /\ r.id \in DOMAIN inflight'
                    /\ inflight'[r.id].ensured
                    /\ inflight'[r.id].chain # None
                    /\ inflight'[r.id].chain = user_sessions'[r.user_id].chain
                    /\ inflight'[r.id].mem0 = user_sessions[r.user_id].memory
        /\ ( /\ last3'.op = "ask"
             /\ last3'.status = "success"
             /\ last3'.mem0 = <<>> )
           => Len(user_sessions'[last3'.user_id].memory) = 1
      ]_vars3

\* C15 witness: clear_history has just emptied a memory and a history that
\* held a turn, on a session with a configured system instruction.
C15_Witness ==
    /\ last3.op = "clear_history"
    /\ last3.status = "success"
    /\ last3.mem0 # <<>>
    /\ last3.hist0 # <<>>
    /\ user_sessions[last3.user_id].system_message = "m1"
    /\ user_sessions[last3.user_id].memory = <<>>

\* C16: an ask that returns an answer has appended exactly one turn, with
\* that answer, to the user's memory and exactly one to the user's history.
C16_OneTurnPerAnswer ==
    (last3.op = "ask" /\ last3.status = "success") =>
        LET user_state == user_sessions[last3.user_id]
            turns == Len(last3.mem0)
            shown == Len(last3.hist0)
        IN /\ Len(user_state.memory) = turns + 1
           /\ SubSeq(user_state.memory, 1, turns) = last3.mem0
           /\ user_state.memory[turns + 1].answer = last3.text
           /\ Len(user_state.history) = shown + 1
           /\ SubSeq(user_state.history, 1, shown) = last3.hist0
           /\ user_state.history[shown + 1] =
                  [question |-> last3.arg, answer |-> last3.text]

\* C17: when fuzzy matching or the semantic rewriting raises, the ask goes on
\* to the generation call with the raw question; if that call returns, the
\* ask succeeds with its answer, and the ask fails only if that call raises.
C17_CorrectionFailureFallsBack ==
    [][ /\ last3'.op = "ask_semantic_raises" =>
              /\ last3'.id \in DOMAIN inflight'
              /\ inflight'[last3'.id].pc = "fallback"
              /\ inflight'[last3'.id].calls = 0
              /\ user_sessions' = user_sessions
        /\ \A id \in DOMAIN inflight :
              ( /\ inflight[id].corrected = "raised"
                /\ inflight[id].calls = 0
                /\ id \notin DOMAIN inflight' )
              => /\ last3'.op = "ask"
                 /\ last3'.id = id
                 /\ \/ /\ last3'.status = "success"
                       /\ last3'.sent = inflight[id].request.arg
                       /\ last3'.text.to = inflight[id].request.arg
                       /\ last3'.calls = 1
                    \/ /\ last3'.status = "exception"
                       /\ last3'.calls = 1
      ]_vars3

\* C17 witness: an answer to the raw question after the correction raised.
C17_Witness ==
    /\ last3.op = "ask"
    /\ last3.status = "success"
    /\ last3.corrected = "raised"
    /\ last3.sent = last3.arg
    /\ last3.calls = 1

\* C18: an ask that ends with the exception of a generation call leaves the
\* user's memory and history as they were when it began, and has issued the
\* generation call at most twice (once, and once again in the except branch);
\* no ask issues it a third time.
C18_GenerationFailureSurfaced ==
    /\ (last3.op = "ask" /\ last3.status = "exception" /\ last3.calls >= 1) =>
          /\ last3.calls <= 2
          /\ last3.user_id \in DOMAIN user_sessions
          /\ user_sessions[last3.user_id].memory = last3.mem0
          /\ user_sessions[last3.user_id].history = last3.hist0
    /\ (last3.op = "ask" /\ last3.status = "success") => last3.calls <= 2
    /\ \A id \in DOMAIN inflight :
          /\ inflight[id].calls <= 1
          /\ inflight[id].pc \in {"semantic", "generate", "fallback"}
          /\ inflight[id].calls = 1 => inflight[id].pc = "fallback"

\* C18 witness: both generation calls of an ask raised, on a session that
\* held a turn.
C18_Witness ==
    /\ last3.op = "ask"
    /\ last3.status = "exception"
    /\ last3.calls = 2
    /\ last3.mem0 # <<>>
    /\ last3.hist0 # <<>>

C20_OtherUserNotBlocked ==
    \A id \in DOMAIN inflight : \A r \in pending :
        ( /\ inflight[id].pc \in {"generate", "fallback"}
          /\ r.user_id # inflight[id].request.user_id )
        => ENABLED (clear_history(r) \/ ask_question(r, "returns"))


\* the requests whose handler runs in this step
Handled(r) == r \in pending /\ r \notin pending'

\* what a handler leaves of a user state that did not exist when it began
FreshlyCreated(r) ==
    LET u == r.user_id
        S == user_sessions'
    IN CASE r.op = "clear_history" ->
              /\ u \notin DOMAIN S
              /\ last3'.status = "error"
         [] r.op = "get_system_message" ->
              /\ S[u] = new_user_state
              /\ last3'.system_message = DEFAULT_SYSTEM_MESSAGE
         [] r.op = "set_system_message" ->
              /\ S[u].memory = <<>>
              /\ S[u].history = <<>>
              /\ S[u].system_message = r.arg
         [] r.op = "refresh_chain" ->
              /\ S[u].memory = <<>>
              /\ S[u].history = <<>>
              /\ S[u].system_message = DEFAULT_SYSTEM_MESSAGE
              /\ S[u].chain # None =>
                     S[u].chain.system_message = DEFAULT_SYSTEM_MESSAGE
         [] r.op = "ask" ->
              /\ S[u].memory = <<>>
              /\ S[u].history = <<>>
              /\ S[u].system_message = DEFAULT_SYSTEM_MESSAGE
              /\ IF r.id \in DOMAIN inflight'
                 THEN /\ inflight'[r.id].mem0 = <<>>
                      /\ inflight'[r.id].hist0 = <<>>
                      /\ inflight'[r.id].ensured
                      /\ inflight'[r.id].chain.system_message
                             = DEFAULT_SYSTEM_MESSAGE
                 ELSE /\ last3'.mem0 = <<>>
                      /\ last3'.hist0 = <<>>
                      /\ last3'.ensured
         [] OTHER -> TRUE

C26_AskWithoutIndex ==
    [][ \A r \in pending :
          ( /\ Begins(r)
            /\ global_vectorstore = None
            /\ r.user_id \in DOMAIN user_sessions =>
                   user_sessions[r.user_id].chain = None )
          => /\ last3'.status = "error"
             /\ last3'.message = "No conversation chain or unable to handle question."
             /\ memory_of(user_sessions', r.user_id)
                    = memory_of(user_sessions, r.user_id)
             /\ history_of(user_sessions', r.user_id)
                    = history_of(user_sessions, r.user_id)
      ]_vars3

(* ======================= properties of the fuzzy corrector ============= *)
\* the step that led here produced a match report
Reported == last3.op = "ask_semantic" /\ "fuzzy_matches" \in DOMAIN last3

\* normalized edit similarity of at least 0.8 between a token and an entry
Similar(token, entry) ==
    10 * LCS(token, entry) >= 4 * (Len(token) + Len(entry))

\* the vocabulary entries within the threshold of a token
Close(token) ==
    {last3.fuzzy_corpus[k] : k \in {j \in 1..Len(last3.fuzzy_corpus) :
                                       Similar(token, last3.fuzzy_corpus[j])}}

Listed(entry) == {entry.matches[k][1] : k \in 1..Len(entry.matches)}

\* C24: the report has an entry for a token of the lowercased question
\* exactly when some vocabulary entry is within similarity 0.8 of the token
\* and the best of them is not the token itself; an entry lists the
\* vocabulary entries within the threshold; the question comes back as given.
C24_MatchReport ==
    Reported =>
        LET tokens == split(lower(last3.user_question))
            report == last3.fuzzy_matches
        IN /\ last3.question = last3.user_question
           /\ \A k \in 1..Len(tokens) :
                 (Close(tokens[k]) # {} /\ tokens[k] \notin Close(tokens[k]))
                 <=> \E j \in 1..Len(report) : report[j].original = tokens[k]
           /\ \A j \in 1..Len(report) :
                 Listed(report[j]) = Close(report[j].original)

\* the acceptance scenario of the corrector
UberQuestion ==
    <<"W", "h", "a", "t", " ", "d", "o", "e", "s", " ", "U", "b", "e", "r", " ", "S", "o", "l", "u", "t", "i", "o", "n", "s", " ", "s", "e", "l", "l", "?">>

Uber == <<"u", "b", "e", "r">>

Ubik == <<"u", "b", "i", "k">>

\* C25: for the question 'What does Uber Solutions sell?' and a vocabulary
\* containing 'ubik', the report lists 'ubik' as a candidate for 'uber'.
C25_UbikForUber ==
    ( /\ Reported
      /\ last3.user_question = UberQuestion
      /\ \E k \in 1..Len(last3.fuzzy_corpus) : last3.fuzzy_corpus[k] = Ubik )
    => \E j \in 1..Len(last3.fuzzy_matches) :
          /\ last3.fuzzy_matches[j].original = Uber
          /\ Ubik \in Listed(last3.fuzzy_matches[j])

(* ======================= properties of quiz ownership ================== *)
\* this step is a submit_answer or get_quiz_result naming a quiz that a
\* session other than the one serving the request holds
ForeignQuizRequest ==
    /\ last'.op \in {"submit_answer", "get_quiz_result"}
    /\ \E B \in DOMAIN sessions \ {last'.session_id} :
          last'.quiz_id \in DOMAIN sessions[B].active_quizzes

\* the quiz named by the request, where it is still held, is as it was
ForeignQuizKept ==
    \A B \in DOMAIN sessions' :
        last'.quiz_id \in DOMAIN sessions'[B].active_quizzes =>
            /\ B \in DOMAIN sessions
            /\ last'.quiz_id \in DOMAIN sessions[B].active_quizzes
            /\ sessions'[B].active_quizzes[last'.quiz_id]
                   = sessions[B].active_quizzes[last'.quiz_id]

\* C23 as stated: submit_answer and get_quiz_result naming a quiz under a
\* session other than the one that started it fail with 404 'Quiz not found'
\* and leave the quiz unchanged.
C23_ForeignQuizNotFound ==
    [][ ForeignQuizRequest =>
          /\ last'.status = 404
          /\ last'.detail = "Quiz not found"
          /\ ForeignQuizKept
      ]_vars

\* C23 amended: such a request fails and leaves the quiz unchanged; the error
\* is 400 'Invalid quiz or question ID format' for a submit_answer whose
\* question identifier is not a well-formed UUID, and 404 'Quiz not found'
\* otherwise.
C23_ForeignQuizRejected ==
    [][ ForeignQuizRequest =>
          /\ IF last'.op = "submit_answer" /\ last'.question_id < 0
             THEN /\ last'.status = 400
                  /\ last'.detail = "Invalid quiz or question ID format"
             ELSE /\ last'.status = 404
                  /\ last'.detail = "Quiz not found"
          /\ ForeignQuizKept
      ]_vars

\* C23 witness: a submission for a question of a quiz was refused with 'Quiz
\* not found' under a new session, while the session that started the quiz
\* still holds it with an answer recorded.
C23_Witness ==
    /\ last.op = "submit_answer"
    /\ last.status = 404
    /\ last.detail = "Quiz not found"
    /\ last.header # last.session_id
    /\ \E B \in DOMAIN sessions \ {last.session_id} :
          /\ last.quiz_id \in DOMAIN sessions[B].active_quizzes
          /\ question_in_quiz(sessions[B].active_quizzes[last.quiz_id],
                              last.question_id)
          /\ sessions[B].active_quizzes[last.quiz_id].answers # EmptyMap

(* ======================= properties of quiz completion ================= *)
\* C27: when submit_answer reports the quiz complete, every question of the
\* quiz has an answer; and the result of a quiz whose cursor has reached the
\* question count reports answered_questions equal to total_questions.
C27_CompleteMeansAllAnswered ==
    /\ ( /\ last.op = "submit_answer"
         /\ last.status = 200
         /\ last.quiz_complete )
       => QuestionIds(QuizOf(sessions, last.session_id, last.quiz_id))
              \subseteq DOMAIN QuizOf(sessions, last.session_id, last.quiz_id).answers
    /\ ( /\ last.op = "get_quiz_result"
         /\ last.status = 200
         /\ quiz_complete(QuizOf(sessions, last.session_id, last.quiz_id)) )
       => last.answered_questions = last.total_questions

\* C28: after every step, in every quiz the keys of the answer mapping are
\* identifiers of the quiz's questions and the number of answered questions
\* is at most the question count and at most the cursor; a quiz that start_quiz
\* has just stored holds the questions start_quiz returned, and no step
\* changes the question list of a quiz.
C28_QuizWellFormed ==
    [][ /\ \A k \in QuizKeys(sessions') :
              LET quiz == QuizOf(sessions', k[1], k[2])
              IN /\ DOMAIN quiz.answers \subseteq QuestionIds(quiz)
                 /\ Cardinality(DOMAIN quiz.answers) <= Len(quiz.questions)
                 /\ Cardinality(DOMAIN quiz.answers) <= quiz.current_question
                 /\ IF HasQuiz(sessions, k[1], k[2])
                    THEN quiz.questions = QuizOf(sessions, k[1], k[2]).questions
                    ELSE /\ last'.op = "start_quiz"
                         /\ last'.status = 200
                         /\ k = <<last'.session_id, last'.quiz_id>>
                         /\ quiz.questions = last'.questions
      ]_vars

\* C28 witness: a quiz of two questions after three accepted submissions, two
\* of them for the same question.
C28_Witness ==
    \E k \in QuizKeys(sessions) :
        LET quiz == QuizOf(sessions, k[1], k[2])
        IN /\ Len(quiz.questions) = 2
           /\ DOMAIN quiz.answers = QuestionIds(quiz)
           /\ quiz.current_question = 3

(* ======================= properties of both servers ==================== *)
\* the user a step of the conversation server acts for
Actors3 ==
    IF "user_id" \in DOMAIN last3'
    THEN {last3'.user_id}
    ELSE IF "id" \in DOMAIN last3' /\ last3'.id \in DOMAIN inflight'
    THEN {inflight'[last3'.id].request.user_id}
    ELSE {}

\* the session ids a step of the quiz server acts for: the one presented and
\* the one the request was served on
Actors2 ==
    IF "session_id" \in DOMAIN last' THEN {last'.header, last'.session_id} ELSE {}

\* C22: a step taken for one session identifier neither creates, removes nor
\* changes the state kept under any other identifier: memory, history, system
\* instruction and chain of the other users of the conversation server, and
\* memory, chain and quizzes of the other sessions of the quiz server.
C22_SessionIsolation ==
    [][ /\ \A B \in (DOMAIN user_sessions \cup DOMAIN user_sessions') \ Actors3 :
              /\ B \in DOMAIN user_sessions
              /\ B \in DOMAIN user_sessions'
              /\ user_sessions'[B] = user_sessions[B]
        /\ \A B \in (DOMAIN sessions \cup DOMAIN sessions') \ Actors2 :
              /\ B \in DOMAIN sessions
              /\ B \in DOMAIN sessions'
              /\ sessions'[B] = sessions[B]
      ]_<<vars, vars3>>

\* C22 witness: a user has cleared a history that held a turn while another
\* user's session holds a turn and a chain.
C22_Witness ==
    /\ last3.op = "clear_history"
    /\ last3.status = "success"
    /\ last3.mem0 # <<>>
    /\ \E B \in DOMAIN user_sessions \ {last3.user_id} :
          /\ user_sessions[B].memory # <<>>
          /\ user_sessions[B].history # <<>>
          /\ user_sessions[B].chain # None

====
